---- MODULE Spec2Model ----
(***************************************************************************)
(* Model of bigwig_loader's batch scheduler: BigWigDataset slices training *)
(* batches of batch_size rows out of super-batches of super_batch_size     *)
(* rows that the inner BigWigSuperDataset fetches from the sequence        *)
(* collaborator (Genome) and the signal collaborator (BigWigCollection).   *)
(* PytorchBigWigDataset delegates iter/next/reset_gpu to BigWigDataset.    *)
(***************************************************************************)
EXTENDS Integers, FiniteSets, Sequences, TLC

\* ---- bounds of the model -------------------------------------------------
MaxBatchSize == 3
MaxSuperBatchSize == 5
MaxBatchesPerEpoch == 5
MaxTotalBases == 8
MaxSequenceLength == 2
MaxTracks == 2
MaxEpochs == 2
MaxBins == 4
MaxWindow == 3
MaxSignal == 1

\* Python's None, for the optional integer arguments
None == -1

\* ---- arguments of BigWigDataset(...) --------------------------------------
\* total_bases = (regions_of_interest["end"] - regions_of_interest["start"]).sum()
BatchSizes == 1..MaxBatchSize
SuperBatchSizes == {None} \cup (0..MaxSuperBatchSize)
ExplicitBatchesPerEpoch == {None} \cup (0..MaxBatchesPerEpoch)
Collections == {"handle", "path", "none"}

Args ==
    [batch_size : BatchSizes,
     super_batch_size : SuperBatchSizes,
     batches_per_epoch : ExplicitBatchesPerEpoch,
     total_bases : {0, MaxTotalBases \div 2, MaxTotalBases},
     sequence_length : {1, MaxSequenceLength},
     collection : Collections,
     num_tracks : {MaxTracks}]

\* ---- pure helpers ----------------------------------------------------------
\* Python's `x or y` on an optional integer: None and 0 are falsy
Or(x, y) == IF x = None \/ x = 0 THEN y ELSE x

CeilDiv(a, b) == (a + b - 1) \div b

\* super_batch_size = super_batch_size or batch_size
EffectiveSuperBatchSize(a) == Or(a.super_batch_size, a.batch_size)

\* if super_batch_size < batch_size: raise AttributeError
SuperBatchTooSmall(a) == EffectiveSuperBatchSize(a) < a.batch_size

\* batches_per_epoch or total_bases // sequence_length // batch_size
BatchesPerEpoch(a) ==
    Or(a.batches_per_epoch,
       (a.total_bases \div a.sequence_length) \div a.batch_size)

SuperBatchesPerEpochFloor(a) ==
    (a.batch_size * BatchesPerEpoch(a)) \div EffectiveSuperBatchSize(a)
\* math.ceil(batch_size * self.batches_per_epoch / super_batch_size)
SuperBatchesPerEpoch(a) ==
    CeilDiv(a.batch_size * BatchesPerEpoch(a), EffectiveSuperBatchSize(a))

\* BigWigSuperDataset: batches_per_epoch or total // sequence_length // batch_size
InnerBatchesPerEpoch(a) ==
    Or(SuperBatchesPerEpoch(a),
       (a.total_bases \div a.sequence_length) \div EffectiveSuperBatchSize(a))

HasNextInclusive(count, limit) == count <= limit
\* if self._n < self.batches_per_epoch
HasNext(count, limit) == count < limit

NeedsRefillAtEnd(isLoaded, off, b, s) == (~isLoaded) \/ off >= s
NeedsRefillInclusive(isLoaded, off, b, s) == (~isLoaded) \/ off + b >= s
NeedsRefillEarly(isLoaded, off, b, s) == (~isLoaded) \/ off + 2 * b > s
\* sequences is None or targets is None or offset + batch_size > super batch_size
NeedsRefill(isLoaded, off, b, s) == (~isLoaded) \/ off + b > s

\* Python slice [off : off + b] of an axis of length len
SliceIndices(off, b, len) == {i \in 0..(len - 1) : off <= i /\ i < off + b}

\* BigWigCollection.get_batch(..., out=self._out) followed by moving_average:
\* the signal is the persistent buffer, [num_tracks, super_batch_size, bins]
GetBatchAxes(tracks, s) == [axis0 |-> "track", tracks |-> tracks, samples |-> s]

\* self._super_batch_targets[offset : offset + batch_size]: a slice of axis 0.
\* The result is the set of <<track, sample>> cells of the signal it covers.
TargetSlice(target, off, b) ==
    IF target.axis0 = "track"
    THEN SliceIndices(off, b, target.tracks) \X (0..(target.samples - 1))
    ELSE (0..(target.tracks - 1)) \X SliceIndices(off, b, target.samples)

MustCreateAlways(cached) == TRUE
\* `if not self._genome`, `if self._prepared_out is None`, and the
\* `is not None` test of bigwig_collection: create only what is not cached
MustCreate(cached) == ~cached

\* collaborator calls made by one next(): genome.get_batch() calls and the
\* positions each returns, collection.get_batch() calls and the allocation
\* number of the buffer passed as out, and the collaborator that raised
NoFetch ==
    [sequence_calls |-> 0, positions |-> 0, signal_calls |-> 0, out |-> 0,
     raised |-> "none"]

\* rows of the super-batch, each with the number of batches it was returned in
\* (2 stands for "more than once")
NoRows == [r \in {} |-> 0]
FreshRows(s) == [r \in 0..(s - 1) |-> 0]
MarkReturned(rows, slice) ==
    [r \in DOMAIN rows |-> IF r \in slice THEN (IF rows[r] = 0 THEN 1 ELSE 2)
                                          ELSE rows[r]]

\* ---- signal path of BigWigSuperDataset.__next__ ---------------------------
\* one row of the signal (one track, one sample): a sequence of bin values
SignalArgs ==
    [sequence_length : {MaxBins},
     center_bin_to_predict : {None, MaxBins \div 2, MaxBins},
     window_size : 1..MaxWindow,
     moving_average_window_size : 1..MaxWindow]

NoSignal ==
    [sequence_length |-> 1, center_bin_to_predict |-> None, window_size |-> 1,
     moving_average_window_size |-> 1, written |-> << >>, target |-> << >>,
     fetched |-> FALSE]

\* center_bin_to_predict if given else sequence_length, // window_size:
\* the last axis of the out buffer
Bins(sig) ==
    Or(sig.center_bin_to_predict, sig.sequence_length) \div sig.window_size

RECURSIVE SumRange(_, _, _)
SumRange(row, from, to) ==
    IF from > to THEN 0 ELSE row[to] + SumRange(row, from, to - 1)

\* bigwig_loader.cupy_functions.moving_average: a length-preserving mean over
\* a window of w bins ending at each bin
MovingAverage(row, w) ==
    [i \in DOMAIN row |->
        SumRange(row, IF i - w + 1 < 1 THEN 1 ELSE i - w + 1, i) \div w]

PostProcessByWindowSize(row, sig) == MovingAverage(row, sig.window_size)
\* target = moving_average(target, self._moving_average_window_size)
PostProcess(row, sig) == MovingAverage(row, sig.moving_average_window_size)

\* ---- state -----------------------------------------------------------------
VARIABLES
    args,                    \* the constructor's arguments
    phase,                   \* "args" | "constructed" | "failed"
    error,                   \* exception raised by the last call, or "none"
    batch_size,              \* BigWigDataset.batch_size
    batches_per_epoch,       \* BigWigDataset.batches_per_epoch
    super_batch_size,        \* BigWigSuperDataset.batch_size
    super_batches_per_epoch, \* BigWigSuperDataset.batches_per_epoch
    n,                       \* BigWigDataset._n
    offset,                  \* BigWigDataset._offset
    loaded,                  \* _super_batch_sequences/_targets are not None
    super_n,                 \* BigWigSuperDataset._n
    genome,                  \* BigWigSuperDataset._genome is set
    bigwig_collection,       \* "handle" | "resolved" | "unset"
    bigwig_path,             \* BigWigSuperDataset._bigwig_path is not None
    prepared_out,            \* BigWigSuperDataset._prepared_out is set
    genome_batch_size,       \* batch_size the Genome was created with (0: no Genome)
    created,                 \* how often Genome, BigWigCollection, out buffer were created
    lastOp,                  \* "none" | "init" | "iter" | "next" | "reset_gpu"
    lastResult,              \* of the last next(): "none"|"batch"|"stop"|"error"
    lastFetch,               \* inner next() in the last next(): "none"|"ok"|"stop"|"error"
    fetch,                   \* collaborator calls of the last next()
    batch_rows,              \* rows of the sequence part of the last batch
    batch_target,            \* <<track, sample>> cells of its signal part
    rows,                    \* return counts of the loaded super-batch's rows
    stale,                   \* the loaded super-batch was fetched before the last iter()
    replaced,                \* return counts of the super-batch last replaced
    refill_offset,           \* offset at the last refill that replaced one, or None
    emitted,                 \* batches returned since the last iter()
    exhausted,               \* next() raised StopIteration since the last iter()
    epoch,                   \* ordinal of the current epoch (0 before construction)
    signal,                  \* signal path of one fetch: its arguments, the values
                             \* written into the out buffer and the values returned
    failed_call,             \* _n after, and batches returned before, the last
                             \* next() of this epoch in which a collaborator raised
    receiver,                \* class of the object the client holds and calls
    tracing,                 \* the values iter() returns are recorded in handles
    handles                  \* per recorded iter(): the object it returned and the
                             \* batches returned through it since the last iter()

config == <<args, batch_size, batches_per_epoch, super_batch_size,
            super_batches_per_epoch>>
cursor == <<n, offset, super_n>>
collaborators == <<genome, bigwig_collection, bigwig_path, prepared_out,
                   genome_batch_size, created>>
client == <<receiver, tracing>>
superbatch == <<loaded, rows, stale, replaced, refill_offset>>
batch == <<batch_rows, batch_target>>
vars == <<config, phase, error, cursor, collaborators, superbatch, batch,
          lastOp, lastResult, lastFetch, fetch, emitted, exhausted, epoch,
          signal, failed_call, receiver, tracing, handles>>

\* ---- iterator handles --------------------------------------------------------
\* classes whose instances a client constructs and iterates over
Receivers == {"BigWigDataset", "PytorchBigWigDataset"}

\* what iter(obj) returns: `return self` in both classes
IterResultNewIterator(obj) == "iterator"
IterResult(obj) == obj

\* the handles after one more iter(): the counts start again at 0
NewHandle(hs, obj) ==
    Append([h \in DOMAIN hs |-> [hs[h] EXCEPT !.returned = 0]],
           [object |-> obj, returned |-> 0])

\* whom next() can be called on: the object itself (0) and every recorded
\* handle that is that object
Callers ==
    {0} \cup (IF tracing
              THEN {h \in DOMAIN handles : handles[h].object = receiver}
              ELSE {})

\* a batch was returned through handle h
CountReturn(hs, h) ==
    IF h = 0 THEN hs ELSE [hs EXCEPT ![h].returned = @ + 1]

RECURSIVE SumReturned(_, _)
SumReturned(hs, k) ==
    IF k = 0 THEN 0 ELSE hs[k].returned + SumReturned(hs, k - 1)

\* no next() of this epoch has failed in a collaborator
NoFailedCall == [n |-> None, emitted |-> None]

\* the dataset before BigWigDataset.__init__ has run
Unconstructed ==
    /\ failed_call = NoFailedCall
    /\ handles = << >>
    /\ phase = "args"
    /\ error = "none"
    /\ batch_size = 0
    /\ batches_per_epoch = 0
    /\ super_batch_size = 0
    /\ super_batches_per_epoch = 0
    /\ n = 0
    /\ offset = 0
    /\ loaded = FALSE
    /\ super_n = 0
    /\ genome = FALSE
    /\ bigwig_collection = "unset"
    /\ bigwig_path = FALSE
    /\ prepared_out = FALSE
    /\ genome_batch_size = 0
    /\ created = [genome |-> 0, collection |-> 0, out |-> 0]
    /\ lastOp = "none"
    /\ lastResult = "none"
    /\ lastFetch = "none"
    /\ fetch = NoFetch
    /\ batch_rows = {}
    /\ batch_target = {}
    /\ rows = NoRows
    /\ stale = FALSE
    /\ replaced = NoRows
    /\ refill_offset = None
    /\ emitted = 0
    /\ exhausted = FALSE
    /\ epoch = 0

Init ==
    /\ args \in Args
    /\ signal = NoSignal
    /\ receiver = "BigWigDataset"
    /\ tracing = FALSE
    /\ Unconstructed

\* ---- BigWigDataset.__init__ ------------------------------------------------
\* raise AttributeError before the inner dataset is built
ConstructFails ==
    /\ phase = "args"
    /\ SuperBatchTooSmall(args)
    /\ phase' = "failed"
    /\ error' = "AttributeError"
    /\ batch_size' = args.batch_size
    /\ lastOp' = "init"
    /\ UNCHANGED <<args, batches_per_epoch, super_batch_size,
                   super_batches_per_epoch, cursor, collaborators, superbatch,
                   batch, lastResult, lastFetch, fetch, emitted, exhausted,
                   epoch>>
    /\ UNCHANGED <<signal, failed_call, client, handles>>

\* the rest of BigWigDataset.__init__ with BigWigSuperDataset.__init__
ConstructOk ==
    /\ phase = "args"
    /\ ~SuperBatchTooSmall(args)
    /\ phase' = "constructed"
    /\ error' = "none"
    /\ batch_size' = args.batch_size
    /\ batches_per_epoch' = BatchesPerEpoch(args)
    /\ super_batch_size' = EffectiveSuperBatchSize(args)
    /\ super_batches_per_epoch' = InnerBatchesPerEpoch(args)
    /\ bigwig_collection' = IF args.collection = "handle" THEN "handle" ELSE "unset"
    /\ bigwig_path' = (args.collection = "path")
    /\ genome' = FALSE
    /\ prepared_out' = FALSE
    /\ UNCHANGED <<genome_batch_size, created>>
    /\ n' = 0
    /\ offset' = 0
    /\ super_n' = 0
    /\ loaded' = FALSE
    /\ rows' = FreshRows(EffectiveSuperBatchSize(args))
    /\ lastOp' = "init"
    /\ epoch' = 1
    /\ UNCHANGED <<args, stale, replaced, refill_offset, batch, lastResult,
                   lastFetch, fetch, emitted, exhausted>>
    /\ UNCHANGED <<signal, failed_call, client, handles>>

\* ---- BigWigSuperDataset.bigwig_collection (property) -----------------------
ResolveCollectionLenient(coll, path) ==
    IF coll # "unset" THEN coll ELSE "resolved"
\* the memoized collection after an access, or the error the access raises
ResolveCollection(coll, path) ==
    IF coll # "unset" THEN coll
    ELSE IF path THEN "resolved"
    ELSE "RuntimeError"

\* ---- reset_gpu --------------------------------------------------------------
ResetGpuRewinds ==
    /\ phase = "constructed"
    /\ LET c == ResolveCollection(bigwig_collection, bigwig_path) IN
        /\ error' = IF c = "RuntimeError" THEN c ELSE "none"
        /\ bigwig_collection' = IF c = "RuntimeError" THEN bigwig_collection ELSE c
        /\ created' = IF c # "RuntimeError" /\ MustCreate(bigwig_collection # "unset")
                      THEN [created EXCEPT !.collection = @ + 1]
                      ELSE created
    /\ lastOp' = "reset_gpu"
    /\ lastResult' = IF error' = "none" THEN "none" ELSE "error"
    /\ lastFetch' = "none"
    /\ fetch' = NoFetch
    /\ n' = 0 /\ offset' = 0 /\ super_n' = 0
    /\ UNCHANGED <<config, phase, genome, bigwig_path, prepared_out,
                   genome_batch_size, superbatch, batch, emitted, exhausted,
                   epoch>>
    /\ UNCHANGED <<signal, failed_call, client, handles>>
\* BigWigDataset.reset_gpu -> BigWigSuperDataset.reset_gpu -> collection.reset_gpu
ResetGpu ==
    /\ phase = "constructed"
    /\ LET c == ResolveCollection(bigwig_collection, bigwig_path) IN
        /\ error' = IF c = "RuntimeError" THEN c ELSE "none"
        /\ bigwig_collection' = IF c = "RuntimeError" THEN bigwig_collection ELSE c
        /\ created' = IF c # "RuntimeError" /\ MustCreate(bigwig_collection # "unset")
                      THEN [created EXCEPT !.collection = @ + 1]
                      ELSE created
    /\ lastOp' = "reset_gpu"
    /\ lastResult' = IF error' = "none" THEN "none" ELSE "error"
    /\ lastFetch' = "none"
    /\ fetch' = NoFetch
    /\ UNCHANGED <<config, phase, cursor, genome, bigwig_path, prepared_out,
                   genome_batch_size, superbatch, batch, emitted, exhausted,
                   epoch>>
    /\ UNCHANGED <<signal, failed_call, client, handles>>

\* ---- __iter__ ---------------------------------------------------------------
IterKeepsInnerCount ==
    /\ phase = "constructed"
    /\ lastOp = "init" \/ epoch < MaxEpochs
    /\ n' = 0
    /\ offset' = 0
    /\ error' = "none"
    /\ lastOp' = "iter"
    /\ lastResult' = "none"
    /\ lastFetch' = "none"
    /\ fetch' = NoFetch
    /\ stale' = loaded
    /\ emitted' = 0
    /\ exhausted' = FALSE
    \* the iter() of the first for-loop over a new dataset starts epoch 1
    /\ epoch' = IF lastOp = "init" THEN epoch ELSE epoch + 1
    /\ UNCHANGED <<config, phase, super_n, collaborators, loaded, rows, replaced,
                   refill_offset, batch>>
    /\ failed_call' = NoFailedCall
    /\ handles' = IF tracing THEN NewHandle(handles, IterResult(receiver))
                           ELSE handles
    /\ UNCHANGED <<signal, client>>
\* BigWigDataset.__iter__ with BigWigSuperDataset.__iter__
Iter ==
    /\ phase = "constructed"
    /\ lastOp = "init" \/ epoch < MaxEpochs
    /\ n' = 0
    /\ offset' = 0
    /\ super_n' = 0
    /\ error' = "none"
    /\ lastOp' = "iter"
    /\ lastResult' = "none"
    /\ lastFetch' = "none"
    /\ fetch' = NoFetch
    /\ stale' = loaded
    /\ emitted' = 0
    /\ exhausted' = FALSE
    \* the iter() of the first for-loop over a new dataset starts epoch 1
    /\ epoch' = IF lastOp = "init" THEN epoch ELSE epoch + 1
    /\ UNCHANGED <<config, phase, collaborators, loaded, rows, replaced,
                   refill_offset, batch>>
    /\ failed_call' = NoFailedCall
    /\ handles' = IF tracing THEN NewHandle(handles, IterResult(receiver))
                           ELSE handles
    /\ UNCHANGED <<signal, client>>

\* ---- __next__ ---------------------------------------------------------------
NextExhaustedRewinds ==
    /\ phase = "constructed"
    /\ ~HasNext(n, batches_per_epoch)
    /\ n' = 0
    /\ error' = "StopIteration"
    /\ lastOp' = "next"
    /\ lastResult' = "stop"
    /\ lastFetch' = "none"
    /\ fetch' = NoFetch
    /\ exhausted' = TRUE
    /\ UNCHANGED <<config, phase, offset, super_n, collaborators, superbatch,
                   batch, emitted, epoch>>
    /\ UNCHANGED <<signal, failed_call, client, handles>>
\* _n has reached batches_per_epoch: raise StopIteration
NextExhausted ==
    /\ phase = "constructed"
    /\ ~HasNext(n, batches_per_epoch)
    /\ error' = "StopIteration"
    /\ lastOp' = "next"
    /\ lastResult' = "stop"
    /\ lastFetch' = "none"
    /\ fetch' = NoFetch
    /\ exhausted' = TRUE
    /\ UNCHANGED <<config, phase, cursor, collaborators, superbatch, batch,
                   emitted, epoch>>
    /\ UNCHANGED <<signal, failed_call, client, handles>>

\* no refill needed: slice the loaded super-batch at the offset
NextSlice ==
    /\ phase = "constructed"
    /\ HasNext(n, batches_per_epoch)
    /\ ~NeedsRefill(loaded, offset, batch_size, super_batch_size)
    /\ n' = n + 1
    /\ batch_rows' = SliceIndices(offset, batch_size, super_batch_size)
    /\ batch_target' =
         TargetSlice(GetBatchAxes(args.num_tracks, super_batch_size),
                     offset, batch_size)
    /\ rows' = MarkReturned(rows, batch_rows')
    /\ offset' = offset + batch_size
    /\ error' = "none"
    /\ lastOp' = "next"
    /\ lastResult' = "batch"
    /\ lastFetch' = "none"
    /\ fetch' = NoFetch
    /\ emitted' = emitted + 1
    /\ UNCHANGED <<config, phase, super_n, collaborators, loaded, stale,
                   replaced, refill_offset, exhausted, epoch>>
    /\ UNCHANGED <<signal, failed_call, client>>
    /\ \E h \in Callers : handles' = CountReturn(handles, h)

\* refill needed, but the inner dataset's _n has reached its batches_per_epoch:
\* its StopIteration leaves BigWigDataset.__next__ after _n was incremented
NextSuperExhausted ==
    /\ phase = "constructed"
    /\ HasNext(n, batches_per_epoch)
    /\ NeedsRefill(loaded, offset, batch_size, super_batch_size)
    /\ ~HasNext(super_n, super_batches_per_epoch)
    /\ n' = n + 1
    /\ error' = "StopIteration"
    /\ lastOp' = "next"
    /\ lastResult' = "stop"
    /\ lastFetch' = "stop"
    /\ fetch' = NoFetch
    /\ exhausted' = TRUE
    /\ UNCHANGED <<config, phase, offset, super_n, collaborators, superbatch,
                   batch, emitted, epoch>>
    /\ UNCHANGED <<signal, failed_call, client, handles>>

\* refill needed, genome.get_batch() done, then the bigwig_collection property
\* raises RuntimeError: both counters were incremented, nothing was stored
NextFetchError ==
    /\ phase = "constructed"
    /\ HasNext(n, batches_per_epoch)
    /\ NeedsRefill(loaded, offset, batch_size, super_batch_size)
    /\ HasNext(super_n, super_batches_per_epoch)
    /\ ResolveCollection(bigwig_collection, bigwig_path) = "RuntimeError"
    /\ n' = n + 1
    /\ super_n' = super_n + 1
    /\ genome' = TRUE
    /\ genome_batch_size' =
         IF MustCreate(genome) THEN super_batch_size ELSE genome_batch_size
    /\ created' = IF MustCreate(genome)
                  THEN [created EXCEPT !.genome = @ + 1] ELSE created
    /\ fetch' = [NoFetch EXCEPT !.sequence_calls = 1,
                                !.positions = genome_batch_size']
    /\ error' = "RuntimeError"
    /\ lastOp' = "next"
    /\ lastResult' = "error"
    /\ lastFetch' = "error"
    /\ UNCHANGED <<config, phase, offset, bigwig_collection, bigwig_path,
                   prepared_out, superbatch, batch, emitted, exhausted, epoch>>
    /\ UNCHANGED <<signal, failed_call, client, handles>>

\* refill: fetch a super-batch, store it, offset := 0, then slice it
NextRefill ==
    /\ phase = "constructed"
    /\ HasNext(n, batches_per_epoch)
    /\ NeedsRefill(loaded, offset, batch_size, super_batch_size)
    /\ HasNext(super_n, super_batches_per_epoch)
    /\ ResolveCollection(bigwig_collection, bigwig_path) # "RuntimeError"
    /\ n' = n + 1
    /\ super_n' = super_n + 1
    /\ genome' = TRUE
    /\ genome_batch_size' =
         IF MustCreate(genome) THEN super_batch_size ELSE genome_batch_size
    /\ bigwig_collection' = ResolveCollection(bigwig_collection, bigwig_path)
    /\ prepared_out' = TRUE
    /\ created' =
         [genome |-> created.genome + (IF MustCreate(genome) THEN 1 ELSE 0),
          collection |-> created.collection
              + (IF MustCreate(bigwig_collection # "unset") THEN 1 ELSE 0),
          out |-> created.out + (IF MustCreate(prepared_out) THEN 1 ELSE 0)]
    /\ fetch' = [sequence_calls |-> 1, positions |-> genome_batch_size',
                 signal_calls |-> 1, out |-> created'.out, raised |-> "none"]
    /\ loaded' = TRUE
    /\ stale' = FALSE
    /\ replaced' = IF loaded THEN rows ELSE replaced
    /\ refill_offset' = IF loaded THEN offset ELSE refill_offset
    /\ batch_rows' = SliceIndices(0, batch_size, super_batch_size)
    /\ batch_target' =
         TargetSlice(GetBatchAxes(args.num_tracks, super_batch_size),
                     0, batch_size)
    /\ rows' = MarkReturned(FreshRows(super_batch_size), batch_rows')
    /\ offset' = 0 + batch_size
    /\ error' = "none"
    /\ lastOp' = "next"
    /\ lastResult' = "batch"
    /\ lastFetch' = "ok"
    /\ emitted' = emitted + 1
    /\ UNCHANGED <<config, phase, bigwig_path, exhausted, epoch>>
    /\ UNCHANGED <<signal, failed_call, client>>
    /\ \E h \in Callers : handles' = CountReturn(handles, h)

DatasetNext ==
    \/ NextExhausted
    \/ NextSlice
    \/ NextSuperExhausted
    \/ NextFetchError
    \/ NextRefill

Next ==
    \/ ConstructFails
    \/ ConstructOk
    \/ Iter
    \/ DatasetNext
    \/ ResetGpu

Spec == Init /\ [][Next]_vars

\* ---- collaborator failures --------------------------------------------------
\* genome.get_batch() raises inside a refill: nothing catches it on the way out
\* of BigWigSuperDataset.__next__, BigWigDataset.__next__ and
\* PytorchBigWigDataset.__next__
NextSequenceFailsAsExhaustion ==
    /\ phase = "constructed"
    /\ HasNext(n, batches_per_epoch)
    /\ NeedsRefill(loaded, offset, batch_size, super_batch_size)
    /\ HasNext(super_n, super_batches_per_epoch)
    /\ n' = n + 1
    /\ super_n' = super_n + 1
    /\ genome' = TRUE
    /\ genome_batch_size' =
         IF MustCreate(genome) THEN super_batch_size ELSE genome_batch_size
    /\ created' = IF MustCreate(genome)
                  THEN [created EXCEPT !.genome = @ + 1] ELSE created
    /\ fetch' = [NoFetch EXCEPT !.sequence_calls = 1,
                                !.positions = genome_batch_size',
                                !.raised = "sequence"]
    /\ error' = "StopIteration"
    /\ failed_call' = [n |-> n', emitted |-> emitted]
    /\ lastOp' = "next"
    /\ lastResult' = "stop"
    /\ lastFetch' = "error"
    /\ exhausted' = TRUE
    /\ UNCHANGED <<config, phase, offset, bigwig_collection, bigwig_path,
                   prepared_out, superbatch, batch, emitted, epoch, signal,
                   client, handles>>
NextSequenceFails ==
    /\ phase = "constructed"
    /\ HasNext(n, batches_per_epoch)
    /\ NeedsRefill(loaded, offset, batch_size, super_batch_size)
    /\ HasNext(super_n, super_batches_per_epoch)
    /\ n' = n + 1
    /\ super_n' = super_n + 1
    /\ genome' = TRUE
    /\ genome_batch_size' =
         IF MustCreate(genome) THEN super_batch_size ELSE genome_batch_size
    /\ created' = IF MustCreate(genome)
                  THEN [created EXCEPT !.genome = @ + 1] ELSE created
    /\ fetch' = [NoFetch EXCEPT !.sequence_calls = 1,
                                !.positions = genome_batch_size',
                                !.raised = "sequence"]
    /\ error' = "CollaboratorError"
    /\ failed_call' = [n |-> n', emitted |-> emitted]
    /\ lastOp' = "next"
    /\ lastResult' = "error"
    /\ lastFetch' = "error"
    /\ UNCHANGED <<config, phase, offset, bigwig_collection, bigwig_path,
                   prepared_out, superbatch, batch, emitted, exhausted, epoch,
                   signal, client, handles>>

\* collection.get_batch() raises inside a refill, after the sequences were
\* fetched, the collection was resolved and the out buffer was prepared
NextSignalFailsReleasesSlots ==
    /\ phase = "constructed"
    /\ HasNext(n, batches_per_epoch)
    /\ NeedsRefill(loaded, offset, batch_size, super_batch_size)
    /\ HasNext(super_n, super_batches_per_epoch)
    /\ ResolveCollection(bigwig_collection, bigwig_path) # "RuntimeError"
    /\ n' = n
    /\ super_n' = super_n
    /\ genome' = TRUE
    /\ genome_batch_size' =
         IF MustCreate(genome) THEN super_batch_size ELSE genome_batch_size
    /\ bigwig_collection' = ResolveCollection(bigwig_collection, bigwig_path)
    /\ prepared_out' = TRUE
    /\ created' =
         [genome |-> created.genome + (IF MustCreate(genome) THEN 1 ELSE 0),
          collection |-> created.collection
              + (IF MustCreate(bigwig_collection # "unset") THEN 1 ELSE 0),
          out |-> created.out + (IF MustCreate(prepared_out) THEN 1 ELSE 0)]
    /\ fetch' = [sequence_calls |-> 1, positions |-> genome_batch_size',
                 signal_calls |-> 1, out |-> created'.out, raised |-> "signal"]
    /\ error' = "CollaboratorError"
    /\ failed_call' = [n |-> n', emitted |-> emitted]
    /\ lastOp' = "next"
    /\ lastResult' = "error"
    /\ lastFetch' = "error"
    /\ UNCHANGED <<config, phase, offset, bigwig_path, superbatch, batch,
                   emitted, exhausted, epoch, signal, client, handles>>
NextSignalFails ==
    /\ phase = "constructed"
    /\ HasNext(n, batches_per_epoch)
    /\ NeedsRefill(loaded, offset, batch_size, super_batch_size)
    /\ HasNext(super_n, super_batches_per_epoch)
    /\ ResolveCollection(bigwig_collection, bigwig_path) # "RuntimeError"
    /\ n' = n + 1
    /\ super_n' = super_n + 1
    /\ genome' = TRUE
    /\ genome_batch_size' =
         IF MustCreate(genome) THEN super_batch_size ELSE genome_batch_size
    /\ bigwig_collection' = ResolveCollection(bigwig_collection, bigwig_path)
    /\ prepared_out' = TRUE
    /\ created' =
         [genome |-> created.genome + (IF MustCreate(genome) THEN 1 ELSE 0),
          collection |-> created.collection
              + (IF MustCreate(bigwig_collection # "unset") THEN 1 ELSE 0),
          out |-> created.out + (IF MustCreate(prepared_out) THEN 1 ELSE 0)]
    /\ fetch' = [sequence_calls |-> 1, positions |-> genome_batch_size',
                 signal_calls |-> 1, out |-> created'.out, raised |-> "signal"]
    /\ error' = "CollaboratorError"
    /\ failed_call' = [n |-> n', emitted |-> emitted]
    /\ lastOp' = "next"
    /\ lastResult' = "error"
    /\ lastFetch' = "error"
    /\ UNCHANGED <<config, phase, offset, bigwig_path, superbatch, batch,
                   emitted, exhausted, epoch, signal, client, handles>>

\* configurations with regions of MaxTotalBases bases and sequence_length 1
FailInit ==
    /\ args \in {a \in Args : a.total_bases = MaxTotalBases
                               /\ a.sequence_length = 1}
    /\ signal = NoSignal
    /\ receiver = "BigWigDataset"
    /\ tracing = FALSE
    /\ Unconstructed

FailNext ==
    \/ ConstructFails
    \/ ConstructOk
    \/ Iter
    \/ NextExhausted
    \/ NextSlice
    \/ NextSuperExhausted
    \/ NextFetchError
    \/ NextRefill
    \/ NextSequenceFails
    \/ NextSignalFails
    \/ ResetGpu

FailSpec == FailInit /\ [][FailNext]_vars

\* ---- clients that keep the values iter() returned ----------------------------
\* the client constructed either class, over regions of MaxTotalBases bases
\* and sequence_length 1, and calls next() through any handle it holds
HandleInit ==
    /\ args \in {a \in Args : a.total_bases = MaxTotalBases
                               /\ a.sequence_length = 1}
    /\ signal = NoSignal
    /\ receiver \in Receivers
    /\ tracing = TRUE
    /\ Unconstructed

HandleSpec == HandleInit /\ [][Next]_vars

\* ---- the signal path of a fetch on its own -----------------------------------
SignalInit ==
    /\ receiver = "BigWigDataset"
    /\ tracing = FALSE
    /\ args = [batch_size |-> 1, super_batch_size |-> None,
               batches_per_epoch |-> None, total_bases |-> 0,
               sequence_length |-> 1, collection |-> "handle",
               num_tracks |-> MaxTracks]
    /\ \E a \in SignalArgs :
         signal = [sequence_length |-> a.sequence_length,
                   center_bin_to_predict |-> a.center_bin_to_predict,
                   window_size |-> a.window_size,
                   moving_average_window_size |-> a.moving_average_window_size,
                   written |-> << >>, target |-> << >>, fetched |-> FALSE]
    /\ Unconstructed

\* collection.get_batch(..., out=self._out) writes a row of Bins values into
\* the out buffer; moving_average of it is what the fetch returns
SuperNextSignal ==
    /\ \E row \in [1..Bins(signal) -> 0..MaxSignal] :
         signal' = [signal EXCEPT !.written = row,
                                  !.target = PostProcess(row, signal),
                                  !.fetched = TRUE]
    /\ UNCHANGED <<config, phase, error, cursor, collaborators, superbatch,
                   batch, lastOp, lastResult, lastFetch, fetch, emitted,
                   exhausted, epoch, failed_call, client, handles>>

SignalNext == SuperNextSignal

SignalSpec == SignalInit /\ [][SignalNext]_vars

\* ---- claims ------------------------------------------------------------------
\* a collection handle or a path was supplied
CollectionGiven == args.collection # "none"

\* the last call was a next() that returned a batch
ReturnedBatch == phase = "constructed" /\ lastOp = "next" /\ lastResult = "batch"

\* C1: in the first epoch of a dataset with a valid configuration, next() signals
\* exhaustion only after exactly batches_per_epoch batches were returned, also
\* when super_batch_size is not a multiple of batch_size.
C1_FirstEpochYieldsBatchesPerEpoch ==
    (phase = "constructed" /\ CollectionGiven /\ epoch = 1 /\ exhausted)
        => emitted = batches_per_epoch

\* C2: every later epoch, started by iter() with or without reset_gpu() before
\* it and whether or not the previous epoch was exhausted, also ends after
\* exactly batches_per_epoch batches.
C2_LaterEpochsYieldBatchesPerEpoch ==
    (phase = "constructed" /\ CollectionGiven /\ epoch >= 2 /\ exhausted)
        => emitted = batches_per_epoch

\* C3: when super_batch_size is a multiple of batch_size, no row of a fetched
\* super-batch is returned in more than one batch, and every row of a
\* super-batch replaced by a refill was returned in exactly one batch.
C3_NoLossNoDuplication ==
    (phase = "constructed" /\ super_batch_size % batch_size = 0)
        => /\ \A r \in DOMAIN rows : rows[r] <= 1
           /\ \A r \in DOMAIN replaced : replaced[r] = 1

\* C4: when super_batch_size is not a multiple of batch_size, every refill that
\* replaces a super-batch happens at offset floor(S/B)*B, and the rows of the
\* replaced super-batch that were never returned are exactly its last S mod B
\* rows; in the first and in every later epoch.
C4_RefillDiscardsTrailingRows ==
    (phase = "constructed" /\ super_batch_size % batch_size # 0
        /\ refill_offset # None)
        => /\ refill_offset = (super_batch_size \div batch_size) * batch_size
           /\ {r \in DOMAIN replaced : replaced[r] = 0}
                = (super_batch_size - (super_batch_size % batch_size))
                    .. (super_batch_size - 1)
           /\ Cardinality({r \in DOMAIN replaced : replaced[r] = 0})
                = super_batch_size % batch_size

\* a super-batch was replaced by a refill in a later epoch, S not a multiple of B
C4_Witness ==
    /\ phase = "constructed"
    /\ super_batch_size % batch_size # 0
    /\ refill_offset # None
    /\ epoch >= 2
    /\ lastFetch = "ok"
    /\ Cardinality({r \in DOMAIN replaced : replaced[r] = 0}) >= 2

\* C5: the first next() of every epoch fetches before it returns its batch, and
\* no batch is sliced from a super-batch fetched before the epoch's iter().
C5_EpochStartsFresh ==
    ReturnedBatch => (~stale /\ (n = 1 => lastFetch = "ok"))

C7_SmallSuperBatchRejected ==
    (phase # "args" /\ args.super_batch_size # None
        /\ args.super_batch_size < args.batch_size)
        => /\ phase = "failed"
           /\ error = "AttributeError"
           /\ ~genome /\ ~prepared_out /\ ~bigwig_path
           /\ bigwig_collection = "unset"
           /\ ~loaded /\ batch_rows = {}

\* C8 as stated: with neither a handle nor a path, the configuration error is
\* raised by the constructor, before any iter(), next() or reset_gpu() and
\* before any cursor or counter changes.
C8_MissingCollectionRejectedAtConstruction ==
    (phase # "args" /\ args.collection = "none")
        => /\ phase = "failed"
           /\ lastOp = "init"
           /\ n = 0 /\ super_n = 0 /\ offset = 0

\* C8 amended: with neither a handle nor a path (and super_batch_size not below
\* batch_size) construction and iter() raise nothing; RuntimeError is raised by
\* every reset_gpu() and by every next() that attempts a fetch, there after both
\* counters were incremented and the sequence collaborator was set up; no
\* super-batch is ever stored and no batch is ever returned.
C8_MissingCollectionRejectedOnAccess ==
    (phase # "args" /\ args.collection = "none"
        /\ \/ args.super_batch_size \in {None, 0}
           \/ args.super_batch_size >= args.batch_size)
        => /\ phase = "constructed"
           /\ lastOp \in {"init", "iter"} => error = "none"
           /\ lastOp = "reset_gpu" => error = "RuntimeError"
           /\ lastOp = "next"
                => /\ error \in {"RuntimeError", "StopIteration"}
                   /\ lastFetch = "error" <=> error = "RuntimeError"
                   /\ error = "RuntimeError" => (n >= 1 /\ super_n >= 1 /\ genome)
           /\ bigwig_collection = "unset"
           /\ ~loaded /\ ~prepared_out /\ offset = 0
           /\ emitted = 0 /\ batch_rows = {} /\ batch_target = {}

\* next() raised RuntimeError on a dataset built without a collection
C8_Witness ==
    /\ phase = "constructed"
    /\ args.collection = "none"
    /\ lastOp = "next"
    /\ error = "RuntimeError"
    /\ n = 2 /\ super_n = 2

\* C9: when batches_per_epoch is 0, construction succeeds and every next()
\* raises StopIteration, fetches nothing and touches no collaborator.
C9_EmptyEpochExhaustsImmediately ==
    [][/\ (phase = "args" /\ BatchesPerEpoch(args) = 0
             /\ EffectiveSuperBatchSize(args) >= args.batch_size)
            => (phase' = "constructed" /\ error' = "none"
                  /\ batches_per_epoch' = 0)
       /\ (phase = "constructed" /\ batches_per_epoch = 0 /\ lastOp' = "next")
            => /\ lastResult' = "stop"
               /\ error' = "StopIteration"
               /\ lastFetch' = "none"
               /\ UNCHANGED <<cursor, collaborators, superbatch, batch, emitted>>
      ]_vars

\* an undersized region list gave batches_per_epoch = 0 and the first next() of
\* the second epoch raised StopIteration
C9_Witness ==
    /\ phase = "constructed"
    /\ args.batches_per_epoch = None
    /\ args.total_bases > 0
    /\ batches_per_epoch = 0
    /\ epoch = 2
    /\ lastOp = "next"
    /\ lastResult = "stop"

\* C10: once next() has raised StopIteration, whether at the batch limit or
\* because the inner dataset was exhausted, every later next() before the next
\* iter() raises StopIteration too, returns no batch and invokes no collaborator.
C10_ExhaustedIsTerminal ==
    [][(phase = "constructed" /\ exhausted /\ lastOp' = "next")
          => /\ lastResult' = "stop"
             /\ error' = "StopIteration"
             /\ lastFetch' \in {"none", "stop"}
             /\ exhausted'
             /\ UNCHANGED <<offset, super_n, collaborators, superbatch, batch,
                            emitted>>
      ]_vars

\* the inner dataset was exhausted with batch slots left, and a later next()
\* ran into it again
C10_Witness ==
    /\ phase = "constructed"
    /\ CollectionGiven
    /\ exhausted
    /\ lastOp = "next"
    /\ lastFetch = "stop"
    /\ n >= emitted + 2

\* C11: batches_per_epoch is the explicit value whenever a non-negative integer
\* is given, and floor(floor(R/L)/B) of the regions' total bases R otherwise.
C11_BatchesPerEpochPlan ==
    phase = "constructed"
        => batches_per_epoch =
             IF args.batches_per_epoch # None
             THEN args.batches_per_epoch
             ELSE (args.total_bases \div args.sequence_length) \div args.batch_size

\* ceil(b * count / s) as the least number of super-batches of s rows that
\* hold count batches' worth of rows
LeastCover(b, count, s) ==
    CHOOSE k \in 0..(b * count) :
        /\ k * s >= b * count
        /\ \A j \in 0..(b * count) : j * s >= b * count => k <= j

\* C12: the fetch limit installed in the inner BigWigSuperDataset equals
\* ceil(B * batches_per_epoch / S), also when that value is 0 and the inner
\* constructor falls back to its own default formula.
C12_InnerLimitIsCeiling ==
    phase = "constructed"
        => super_batches_per_epoch
             = LeastCover(batch_size, batches_per_epoch, super_batch_size)

\* the limit is 0 and the inner default was computed from regions with bases
C12_Witness ==
    /\ phase = "constructed"
    /\ super_batches_per_epoch = 0
    /\ args.total_bases > 0
    /\ args.total_bases \div args.sequence_length >= 2

\* the first epoch of a new dataset so far: one fetch, made by the first next(),
\* batches at offsets 0, B, 2B, ... of that super-batch, nothing replaced
SingleFetchEpoch ==
    /\ super_n = (IF n = 0 THEN 0 ELSE 1)
    /\ refill_offset = None
    /\ ReturnedBatch
         => /\ batch_rows = ((n - 1) * batch_size) .. (n * batch_size - 1)
            /\ lastFetch = (IF n = 1 THEN "ok" ELSE "none")
    /\ exhausted => (emitted = batches_per_epoch /\ super_n = 1)

\* C13 as stated: whenever B * batches_per_epoch <= S, the first epoch of a new
\* dataset performs exactly one fetch, on its first next(), and returns its
\* batches at offsets 0, B, 2B, ... of that super-batch without a refetch.
C13_OneFetchWhenEpochFits ==
    (phase = "constructed" /\ CollectionGiven /\ epoch = 1
        /\ batch_size * batches_per_epoch <= super_batch_size)
        => SingleFetchEpoch

\* C13 amended: the same for 1 <= batches_per_epoch; with batches_per_epoch = 0
\* the epoch performs no fetch at all.
C13_OneFetchWhenNonEmptyEpochFits ==
    /\ (phase = "constructed" /\ CollectionGiven /\ epoch = 1
          /\ batches_per_epoch >= 1
          /\ batch_size * batches_per_epoch <= super_batch_size)
          => SingleFetchEpoch
    /\ (phase = "constructed" /\ batches_per_epoch = 0) => super_n = 0

\* 4 bases of regions, L = 1, B = 2, S = 4: 2 batches of 2 rows from 1 fetch
C13_Witness ==
    /\ phase = "constructed"
    /\ CollectionGiven
    /\ epoch = 1
    /\ args.batches_per_epoch = None
    /\ batches_per_epoch = 2 /\ batch_size = 2 /\ super_batch_size = 4
    /\ exhausted
    /\ emitted = 2
    /\ super_n = 1
    /\ batch_rows = 2..3

\* C14: reset_gpu() only reaches the signal collaborator: in any state it leaves
\* the cursor (offset, batches emitted), the inner fetch counter, the epoch
\* plan and the loaded super-batch unchanged, and a repeated call changes
\* nothing at all.
C14_ResetGpuKeepsSchedulerState ==
    [][(phase = "constructed" /\ lastOp' = "reset_gpu")
          => /\ UNCHANGED <<config, phase, cursor, superbatch, batch, emitted,
                            exhausted, epoch>>
             /\ UNCHANGED <<genome, genome_batch_size, prepared_out, bigwig_path>>
             /\ lastOp = "reset_gpu" => UNCHANGED vars
      ]_vars

\* reset_gpu() succeeded in the middle of an epoch, a super-batch partly used
C14_Witness ==
    /\ phase = "constructed"
    /\ lastOp = "reset_gpu"
    /\ error = "none"
    /\ loaded
    /\ 0 < offset /\ offset + batch_size <= super_batch_size
    /\ 0 < n /\ n < batches_per_epoch
    /\ super_n = 2

\* C16: iter() in any state of a constructed dataset raises nothing, sets
\* offset, batches emitted and the inner fetch counter to 0, and leaves the
\* loaded super-batch, the persistent buffer and the collaborators untouched.
C16_IterResetsCursorOnly ==
    [][(phase = "constructed" /\ lastOp' = "iter")
          => /\ offset' = 0 /\ n' = 0 /\ super_n' = 0
             /\ error' = "none"
             /\ UNCHANGED <<config, phase, collaborators, loaded, rows, batch>>
      ]_vars

\* iter() abandoned an epoch whose super-batch was partly returned and whose
\* inner fetch counter was not 0
C16_Witness ==
    /\ phase = "constructed"
    /\ lastOp = "iter"
    /\ epoch = 2
    /\ loaded /\ prepared_out
    /\ \E r \in DOMAIN rows : rows[r] = 0
    /\ \E r \in DOMAIN rows : rows[r] = 1
    /\ n = 0 /\ offset = 0 /\ super_n = 0
    /\ ~exhausted

\* C17: in every state of a constructed dataset 0 <= offset <= super_batch_size,
\* offset is a multiple of batch_size and 0 <= _n <= batches_per_epoch; every
\* slice taken by next() lies inside the super-batch and has batch_size rows.
C17_CursorInRange ==
    phase = "constructed"
        => /\ 0 <= offset /\ offset <= super_batch_size
           /\ offset % batch_size = 0
           /\ 0 <= n /\ n <= batches_per_epoch
           /\ ReturnedBatch
                => /\ batch_rows = (offset - batch_size) .. (offset - 1)
                   /\ batch_rows \subseteq 0 .. (super_batch_size - 1)
                   /\ Cardinality(batch_rows) = batch_size

\* the last batch of an epoch was sliced next to the unused tail of a
\* super-batch that is no multiple of batch_size
C17_Witness ==
    /\ ReturnedBatch
    /\ super_batch_size % batch_size # 0
    /\ offset + batch_size > super_batch_size
    /\ offset >= 2 * batch_size
    /\ n = batches_per_epoch

\* C18: over any sequence of iter(), next() and reset_gpu() calls the Genome,
\* the BigWigCollection and the persistent out buffer are each created at most
\* once, and every fetch passes that one buffer to the signal collaborator.
C18_CollaboratorsCreatedOnce ==
    /\ created.genome <= 1 /\ created.collection <= 1 /\ created.out <= 1
    /\ genome <=> created.genome = 1
    /\ prepared_out <=> created.out = 1
    /\ bigwig_collection = "resolved" <=> created.collection = 1
    /\ fetch.signal_calls >= 1 => fetch.out = 1
    /\ fetch.out \in {0, 1}

\* a refill in the second epoch, on a dataset that built its collection from a
\* path: everything was created once and the first buffer was passed again
C18_Witness ==
    /\ phase = "constructed"
    /\ args.collection = "path"
    /\ epoch = 2
    /\ lastFetch = "ok"
    /\ refill_offset # None
    /\ super_n = 2
    /\ created = [genome |-> 1, collection |-> 1, out |-> 1]
    /\ fetch.out = 1

\* C20: in every epoch at most ceil(B * batches_per_epoch / S) fetches reach the
\* collaborators, each fetch requests exactly super_batch_size positions, and a
\* next() that needs a refill once that limit is reached raises StopIteration
\* without fetching.
C20_FetchesBoundedPerEpoch ==
    [][LET limit == LeastCover(batch_size, batches_per_epoch, super_batch_size)
       IN
       /\ phase' = "constructed"
            => /\ super_n' <= LeastCover(batch_size', batches_per_epoch',
                                         super_batch_size')
               /\ fetch'.sequence_calls <= 1 /\ fetch'.signal_calls <= 1
               /\ fetch'.sequence_calls = 1
                    => fetch'.positions =
                         (IF args.super_batch_size \in {None, 0}
                          THEN args.batch_size ELSE args.super_batch_size)
       /\ (phase = "constructed" /\ lastOp' = "next"
             /\ n < batches_per_epoch
             /\ (~loaded \/ offset + batch_size > super_batch_size)
             /\ super_n >= limit)
            => /\ lastResult' = "stop"
               /\ error' = "StopIteration"
               /\ fetch' = NoFetch
               /\ UNCHANGED <<super_n, collaborators, superbatch, batch>>
      ]_vars

\* the third refill of an epoch was refused at a limit of 2 fetches
C20_Witness ==
    /\ phase = "constructed"
    /\ CollectionGiven
    /\ lastOp = "next"
    /\ lastFetch = "stop"
    /\ super_n = 2
    /\ super_batches_per_epoch = 2
    /\ n = 3

C19_CollaboratorFailurePropagates ==
    [][(lastOp' = "next" /\ fetch'.raised # "none")
          => /\ error' = "CollaboratorError"
             /\ lastResult' = "error"
             /\ exhausted' = exhausted
             /\ UNCHANGED <<batch, emitted, offset, superbatch>>
             /\ n' = n + 1 /\ super_n' = super_n + 1
             /\ fetch'.sequence_calls = 1
             /\ fetch'.signal_calls = (IF fetch'.raised = "signal" THEN 1 ELSE 0)
      ]_vars

\* the signal collaborator raised in a refill that would have replaced a
\* used-up super-batch, after batches had been returned in this epoch
C19_Witness ==
    /\ phase = "constructed"
    /\ lastOp = "next"
    /\ error = "CollaboratorError"
    /\ fetch.raised = "signal"
    /\ loaded
    /\ offset + batch_size > super_batch_size
    /\ emitted >= 1
    /\ n = emitted + 1
    /\ ~exhausted

\* C21: a next() in which a collaborator raises during the refill leaves the
\* offset and the loaded super-batch as they were and increments both _n
\* counters; from then on this epoch returns at most batches_per_epoch minus
\* the calls made up to and including the failed one.
C21_FailedRefillConsumesSlots ==
    [][/\ (lastOp' = "next" /\ fetch'.raised # "none")
            => /\ offset' = offset
               /\ loaded' = loaded
               /\ rows' = rows
               /\ n' = n + 1
               /\ super_n' = super_n + 1
       /\ (failed_call' # NoFailedCall)
            => emitted' - failed_call'.emitted
                   <= batches_per_epoch' - failed_call'.n
      ]_vars

\* after a failed refill at the second call of an epoch of three batches, the
\* third call returned the one batch that was left
C21_Witness ==
    /\ phase = "constructed"
    /\ batches_per_epoch = 3
    /\ failed_call = [n |-> 2, emitted |-> 1]
    /\ lastOp = "next"
    /\ lastResult = "batch"
    /\ emitted = 2
    /\ n = batches_per_epoch

\* C22: every iter() returns the object it was called on, for both classes; an
\* iter() resets _n, _offset and the inner _n to 0 whatever the progress of the
\* epoch; and the batches returned through all handles since the most recent
\* iter() are at most batches_per_epoch.
C22_HandlesShareOneCursor ==
    [][/\ \A h \in DOMAIN handles' : handles'[h].object = receiver
       /\ lastOp' = "iter" => (n' = 0 /\ offset' = 0 /\ super_n' = 0)
       /\ SumReturned(handles', Len(handles')) <= emitted'
       /\ emitted' <= batches_per_epoch'
      ]_vars

\* a PytorchBigWigDataset whose epoch of three batches was returned through
\* two handles, the older one included, after the second iter()
C22_Witness ==
    /\ receiver = "PytorchBigWigDataset"
    /\ Len(handles) = 2
    /\ handles[1].returned >= 1
    /\ handles[2].returned >= 1
    /\ batches_per_epoch = 3
    /\ emitted = batches_per_epoch
    /\ SumReturned(handles, 2) = emitted
    /\ lastResult = "stop"

====
